---- MODULE Spec2Model ----
(***************************************************************************)
(* Model of ibd_hackathon/ibd_data_generator.py: main's per-patient step   *)
(* and generate_patient_timeline (baseline draw, flare scheduling, the     *)
(* per-day synthesis loop, return).                                        *)
(*                                                                         *)
(* Real numbers are exact fixed point: a channel value x is the integer    *)
(* x * Scale.  Scale = 20 * 49 makes every quantity of the program an      *)
(* integer: progress is a multiple of 1/49, the flare changes are          *)
(* multiples of 0.05 and the sampled normal deviates are multiples of 1/2. *)
(* A float is a record [nan, v]; NaN is [nan |-> TRUE, v |-> 0].           *)
(*                                                                         *)
(* The global stream np.random is its position ndraws and the value of     *)
(* each draw.  The draws of main and of the scheduling phase are chosen    *)
(* from sample sets; the baseline and per-day draws are read from the      *)
(* stream of the chosen seed, Raw(seed, position).                         *)
(***************************************************************************)
EXTENDS Integers, Sequences, FiniteSets, TLC

\* ---------------------------------------------------------------- bounds
MaxSeed == 1          \* seeds 0..MaxSeed
DrawLevels == 20      \* a raw draw is one of 0..DrawLevels-1

\* ------------------------------------------------------ program constants
MIN_DAYS == 90
MAX_DAYS == 365
EDGE_DAYS == 30
MIN_FLARE_DURATION == 7
MAX_FLARE_DURATION_EXCL == 22
MIN_FLARES == 1
MAX_FLARES_EXCL == 4
RAMP_DAYS == 49
HOURS_PER_DAY == 24
DRAWS_IN_MAIN == 2

Scale == 20 * RAMP_DAYS

\* a constant given in hundredths, as a fixed-point value
Fx(x100) == (x100 * Scale) \div 100

Devices == {"Apple Watch", "Fitbit", "Oura Ring"}

\* DEVICE_CHARACTERISTICS: hr_hours_per_day in hundredths of an hour, has_spo2
DEVICE_CHARACTERISTICS ==
  [d \in Devices |->
     CASE d = "Apple Watch" -> [hr_hours_per_day |-> 1430, has_spo2 |-> TRUE]
       [] d = "Fitbit"      -> [hr_hours_per_day |-> 1900, has_spo2 |-> FALSE]
       [] d = "Oura Ring"   -> [hr_hours_per_day |-> 1100, has_spo2 |-> FALSE]]

\* channel order: rhr, hr, hrv_sdnn, hrv_rmssd, steps, spo2, sleep_hours,
\* sleep_efficiency
Channels == 1..8
RHR == 1
HR == 2
HRV_SDNN == 3
HRV_RMSSD == 4
STEPS == 5
SPO2 == 6
SLEEP_HOURS == 7
SLEEP_EFFICIENCY == 8

\* BASELINE_PARAMS, in hundredths
BASELINE_MEAN == <<6500, 7500, 4000, 3500, 800000, 9750, 720, 8500>>
BASELINE_STD  == <<800, 1000, 1200, 1000, 250000, 80, 100, 500>>
\* FLARE_CHANGES, in hundredths; channels 3, 4, 5 are proportional
FLARE_CHANGES == <<800, 1000, -30, -25, -40, -20, -100, -1500>>
Proportional == {HRV_SDNN, HRV_RMSSD, STEPS}
\* standard deviations of the daily noise, in hundredths
NOISE_STD == <<200, 300, 300, 250, 100000, 30, 50, 300>>

\* ------------------------------------------------------------ floats
NaN == [nan |-> TRUE, v |-> 0]
Num(x) == [nan |-> FALSE, v |-> x]
IsNaN(f) == f.nan

\* Python's max(a, x) with a number a first: x replaces a only if x > a,
\* and NaN > a is false
PyMax(a, f) == IF (~f.nan) /\ f.v > a THEN f ELSE Num(a)

\* variant: only the lower limit is applied
NpClip_NoUpper(f, lo, hi) ==
  IF f.nan THEN NaN ELSE IF f.v < lo THEN Num(lo) ELSE f

\* np.clip(x, lo, hi): NaN propagates
NpClip(f, lo, hi) ==
  IF f.nan THEN NaN
  ELSE IF f.v < lo THEN Num(lo) ELSE IF f.v > hi THEN Num(hi) ELSE f

\* line 223: np.clip(spo2, 90, 100) if not np.isnan(spo2) else np.nan
StoreSpo2(f) == IF ~IsNaN(f) THEN NpClip(f, 90 * Scale, 100 * Scale) ELSE NaN

\* lines 218-225: the value appended for channel c
Stored(c, f) ==
  CASE c = RHR              -> PyMax(40 * Scale, f)
    [] c = HR               -> PyMax(50 * Scale, f)
    [] c = HRV_SDNN         -> PyMax(5 * Scale, f)
    [] c = HRV_RMSSD        -> PyMax(5 * Scale, f)
    [] c = STEPS            -> PyMax(0, f)
    [] c = SPO2             -> StoreSpo2(f)
    [] c = SLEEP_HOURS      -> NpClip(f, 3 * Scale, 12 * Scale)
    [] c = SLEEP_EFFICIENCY -> NpClip(f, 40 * Scale, 100 * Scale)

\* ------------------------------------------------------------ the stream
\* the raw value of the draw at position pos (1-based) of the seed's stream
Raw(s, pos) == (7 * pos + 3 * s + (pos \div 9) + 4) % DrawLevels

\* twice the standard normal deviate a raw value stands for: the deviates
\* range from about -7.5 to 7
ZHalf(r) == (3 * (2 * r - (DrawLevels - 1))) \div 4

\* np.random.normal(mean, std) for the raw value r (mean, std in hundredths)
Normal(mean100, std100, r) == Fx(mean100) + (Fx(std100) * ZHalf(r)) \div 2

\* np.random.randint(low, high): the integers it can return (none: ValueError)
RandInt(low, high) == low..(high - 1)

\* np.random.random() > hr_hours_per_day / 24 for the raw value r (r/DrawLevels)
ExceedsCoverage(r, dev) ==
  r * 100 * HOURS_PER_DAY > DEVICE_CHARACTERISTICS[dev].hr_hours_per_day * DrawLevels

\* np.random.random() < 0.5
BelowHalf(r) == 2 * r < DrawLevels

\* ------------------------------------------------------------ dates
IsLeap(y) == (y % 4 = 0 /\ y % 100 # 0) \/ y % 400 = 0
DaysInMonth(y, m) ==
  IF m = 2 THEN (IF IsLeap(y) THEN 29 ELSE 28)
  ELSE IF m \in {4, 6, 9, 11} THEN 30 ELSE 31

RECURSIVE Normalize(_, _, _)
Normalize(y, m, d) ==
  IF d > DaysInMonth(y, m)
  THEN (IF m = 12 THEN Normalize(y + 1, 1, d - DaysInMonth(y, m))
        ELSE Normalize(y, m + 1, d - DaysInMonth(y, m)))
  ELSE <<y, m, d>>

\* start_date + timedelta(days=i), start_date = datetime(2024, 1, 1)
start_date == <<2024, 1, 1>>
\* variant: the dates start one day late (range(1, num_days + 1))
DateAt_FromOne(i) == Normalize(start_date[1], start_date[2], start_date[3] + i + 1)
DateAt(i) == Normalize(start_date[1], start_date[2], start_date[3] + i)

\* ------------------------------------------------------------ main's inputs
\* sampled values of np.random.normal(207, 153), in hundredths
RawDaysSamples == {-10050, 8990, 9120, 50000}
\* int(x): truncation toward zero
PyInt(x100) == IF x100 >= 0 THEN x100 \div 100 ELSE -((-x100) \div 100)
Max(a, b) == IF a >= b THEN a ELSE b
Min(a, b) == IF a <= b THEN a ELSE b
\* line 262
ClampDays(n) == Max(MIN_DAYS, Min(MAX_DAYS, n))

\* sampled results of the scheduling randints
DurationSamples == {MIN_FLARE_DURATION, 10, MAX_FLARE_DURATION_EXCL - 1}
\* the first start for the shortest episode, the last one for the longest,
\* the tenth and the last for a 10-day episode
StartSamples(flare_duration, low, high) ==
  CASE flare_duration = MIN_FLARE_DURATION -> {low}
    [] flare_duration = MAX_FLARE_DURATION_EXCL - 1 -> {high - 1}
    [] OTHER -> {low + 10, high - 1}
HasFlareSamples == {0, DrawLevels \div 2, DrawLevels - 1}

\* ------------------------------------------------------------ state
VARIABLES
  pc,                  \* position in main / generate_patient_timeline
  seed,                \* the seed of the global stream (np.random.seed)
  ndraws,              \* draws consumed from the global stream so far
  patient_id, device, num_days,      \* arguments of generate_patient_timeline
  patient_baseline,    \* channel -> fixed-point baseline
  has_flare, num_flares,
  flare_periods,       \* sequence of <<flare_start, flare_end>>
  data,                \* the column table, one record per appended row
  day_idx, is_flare_day, days_to_next_flare,   \* locals of the day loop
  progress,            \* progress * RAMP_DAYS
  miss_draw            \* raw value of the day's np.random.random()

vars == <<pc, seed, ndraws, patient_id, device, num_days, patient_baseline,
          has_flare, num_flares, flare_periods, data, day_idx, is_flare_day,
          days_to_next_flare, progress, miss_draw>>

callVars == <<patient_id, device, num_days>>
dayVars == <<data, day_idx, is_flare_day, days_to_next_flare, progress, miss_draw>>

Init ==
  /\ pc = "main"
  /\ seed \in 0..MaxSeed
  /\ ndraws = 0
  /\ patient_id = "" /\ device = "" /\ num_days = 0
  /\ patient_baseline = [c \in Channels |-> 0]
  /\ has_flare = FALSE /\ num_flares = 0
  /\ flare_periods = <<>>
  /\ data = <<>>
  /\ day_idx = -1 /\ is_flare_day = FALSE /\ days_to_next_flare = -1
  /\ progress = 0 /\ miss_draw = 0

\* main, lines 251-265, for the first patient: device choice, number of days
Main ==
  /\ pc = "main"
  /\ \E dev \in Devices, raw \in RawDaysSamples :
       /\ device' = dev
       /\ num_days' = ClampDays(PyInt(raw))
  /\ patient_id' = "P001"
  /\ ndraws' = ndraws + DRAWS_IN_MAIN
  /\ pc' = "baseline"
  /\ UNCHANGED <<seed, patient_baseline, has_flare, num_flares, flare_periods>>
  /\ UNCHANGED dayVars

\* lines 112-116: the eight baseline draws, in the order of BASELINE_PARAMS
DrawBaseline ==
  /\ pc = "baseline"
  /\ patient_baseline' =
       [c \in Channels |->
          Normal(BASELINE_MEAN[c], BASELINE_STD[c], Raw(seed, ndraws + c))]
  /\ ndraws' = ndraws + 8
  /\ pc' = "has_flare"
  /\ UNCHANGED <<seed, has_flare, num_flares, flare_periods>>
  /\ UNCHANGED callVars
  /\ UNCHANGED dayVars

\* lines 119-124 and 133-134: flare presence, then the episode count
DecideFlares ==
  /\ pc = "has_flare"
  /\ \E r \in HasFlareSamples :
       /\ has_flare' = BelowHalf(r)
       /\ IF BelowHalf(r)
          THEN /\ \E n \in RandInt(MIN_FLARES, MAX_FLARES_EXCL) : num_flares' = n
               /\ ndraws' = ndraws + 2
               /\ pc' = "episodes"
          ELSE /\ num_flares' = num_flares
               /\ ndraws' = ndraws + 1
               /\ pc' = "days"
  /\ flare_periods' = <<>>
  /\ UNCHANGED <<seed, patient_baseline>>
  /\ UNCHANGED callVars
  /\ UNCHANGED dayVars

\* line 130: the window of flare_start for a duration
StartLow == EDGE_DAYS
\* variant: the window is not kept away from the end of the timeline
StartHigh_NoEdge(n, flare_duration) == n - flare_duration
StartHigh(n, flare_duration) == n - flare_duration - EDGE_DAYS

\* lines 126-132: one iteration of the episode loop; randint raises
\* ValueError on an empty window and the call ends without a result
ScheduleEpisode ==
  /\ pc = "episodes"
  /\ \E flare_duration \in
          RandInt(MIN_FLARE_DURATION, MAX_FLARE_DURATION_EXCL) \cap DurationSamples :
       LET high == StartHigh(num_days, flare_duration) IN
       IF RandInt(StartLow, high) = {}
       THEN /\ pc' = "raised"
            /\ ndraws' = ndraws + 1
            /\ flare_periods' = flare_periods
       ELSE \E flare_start \in RandInt(StartLow, high) \cap StartSamples(flare_duration, StartLow, high) :
              /\ flare_periods' =
                   Append(flare_periods, <<flare_start, flare_start + flare_duration>>)
              /\ ndraws' = ndraws + 2
              /\ pc' = IF Len(flare_periods) + 1 = num_flares THEN "days" ELSE "episodes"
  /\ UNCHANGED <<seed, patient_baseline, has_flare, num_flares>>
  /\ UNCHANGED callVars
  /\ UNCHANGED dayVars

\* variant: the end day counts as a flare day (start <= day_idx <= end)
IsFlareDay_Closed(d, periods) ==
  \E k \in 1..Len(periods) : periods[k][1] <= d /\ d <= periods[k][2]

\* line 156
IsFlareDay(d, periods) ==
  \E k \in 1..Len(periods) : periods[k][1] <= d /\ d < periods[k][2]

\* lines 159-163: the first episode, in list order, that starts after d
RECURSIVE ScanNextFlare(_, _, _)
ScanNextFlare(d, periods, k) ==
  IF k > Len(periods) THEN -1
  ELSE IF d < periods[k][1] THEN periods[k][1] - d
  ELSE ScanNextFlare(d, periods, k + 1)
\* variant: the countdown is one too long (start - day_idx + 1)
DaysToNextFlare_Inclusive(d, periods) ==
  LET n == ScanNextFlare(d, periods, 1) IN IF n = -1 THEN -1 ELSE n + 1
DaysToNextFlare(d, periods) == ScanNextFlare(d, periods, 1)

\* lines 166-173, as progress * RAMP_DAYS
Progress(dtf, flare) ==
  IF dtf > 0 /\ dtf <= RAMP_DAYS THEN RAMP_DAYS - dtf
  ELSE IF flare THEN RAMP_DAYS
  ELSE 0

\* lines 176-183: the channel value at progress p / RAMP_DAYS
WithFlare(c, b, p) ==
  IF c \in Proportional
  THEN b + (b \div Scale) * ((Fx(FLARE_CHANGES[c]) * p) \div RAMP_DAYS)
  ELSE b + (Fx(FLARE_CHANGES[c]) * p) \div RAMP_DAYS

\* variant: the noise draws are made in the reverse channel order
NoiseOffset_Reversed(c) == 9 - c
\* lines 186-193: position of channel c's noise draw within the day's draws
NoiseOffset(c) == c
\* line 199: position of the missingness draw within the day's draws
MissOffset == 9

\* variant: the has_spo2 test of lines 211-212 is left out
Measured_NoSpo2Gate(c, b, p, s, pos, dev) ==
  IF ExceedsCoverage(Raw(s, pos + MissOffset), dev) THEN NaN
  ELSE Num(WithFlare(c, b, p) + Normal(0, NOISE_STD[c], Raw(s, pos + NoiseOffset(c))))

\* lines 176-212: the channel value before it is stored
Measured(c, b, p, s, pos, dev) ==
  IF ExceedsCoverage(Raw(s, pos + MissOffset), dev) THEN NaN
  ELSE IF c = SPO2 /\ ~DEVICE_CHARACTERISTICS[dev].has_spo2 THEN NaN
  ELSE Num(WithFlare(c, b, p) + Normal(0, NOISE_STD[c], Raw(s, pos + NoiseOffset(c))))

\* lines 154-227: one iteration of the day loop
GenerateDay ==
  /\ pc = "days"
  /\ Len(data) < num_days
  /\ LET d == Len(data)
         flare == IsFlareDay(d, flare_periods)
         dtf == DaysToNextFlare(d, flare_periods)
         p == Progress(dtf, flare)
     IN /\ day_idx' = d
        /\ is_flare_day' = flare
        /\ days_to_next_flare' = dtf
        /\ progress' = p
        /\ miss_draw' = Raw(seed, ndraws + MissOffset)
        /\ data' = Append(data,
             [patient_id |-> patient_id,
              date |-> DateAt(d),
              device |-> device,
              ch |-> [c \in Channels |->
                        Stored(c, Measured(c, patient_baseline[c], p, seed, ndraws, device))],
              in_flare |-> IF flare THEN 1 ELSE 0,
              days_to_flare |-> dtf])
  /\ ndraws' = ndraws + 9
  /\ pc' = "days"
  /\ UNCHANGED <<seed, patient_baseline, has_flare, num_flares, flare_periods>>
  /\ UNCHANGED callVars

\* line 229: the loop is over, the frame built from data is returned
Return ==
  /\ pc = "days"
  /\ Len(data) >= num_days
  /\ pc' = "done"
  /\ UNCHANGED <<seed, ndraws, patient_baseline, has_flare, num_flares, flare_periods>>
  /\ UNCHANGED callVars
  /\ UNCHANGED dayVars

Next == Main \/ DrawBaseline \/ DecideFlares \/ ScheduleEpisode \/ GenerateDay \/ Return

Spec == Init /\ [][Next]_vars

\* ============================================================ claims
\* the row appended by the latest iteration of the day loop
HasRow == Len(data) > 0
LastRow == data[Len(data)]
Missing == ExceedsCoverage(miss_draw, device)
InSomePeriod(d) ==
  \E k \in 1..Len(flare_periods) :
     flare_periods[k][1] <= d /\ d < flare_periods[k][2]

\* C1: on a day whose missingness draw exceeds the device's coverage
\* fraction, every one of the eight channels of the stored row is NaN.
C1_MissingDayAllAbsent ==
  (HasRow /\ Missing) => \A c \in Channels : IsNaN(LastRow.ch[c])

\* what the code stores on such a day: the floors of the five max() channels
\* and NaN for the three clipped ones
C1_MissingDayStored ==
  (HasRow /\ Missing) =>
     /\ LastRow.ch[RHR] = Num(40 * Scale)
     /\ LastRow.ch[HR] = Num(50 * Scale)
     /\ LastRow.ch[HRV_SDNN] = Num(5 * Scale)
     /\ LastRow.ch[HRV_RMSSD] = Num(5 * Scale)
     /\ LastRow.ch[STEPS] = Num(0)
     /\ \A c \in {SPO2, SLEEP_HOURS, SLEEP_EFFICIENCY} : IsNaN(LastRow.ch[c])

\* C2: main passes num_days within [90, 365]; the returned table has exactly
\* num_days rows, the first dated 2024-01-01 and each next one dated the
\* calendar day after its predecessor.
MonthLengths2024 == <<31, 29, 31, 30, 31, 30, 31, 31, 30, 31, 30, 31>>
DayAfter(date) ==
  IF date[3] < MonthLengths2024[date[2]] THEN <<date[1], date[2], date[3] + 1>>
  ELSE IF date[2] < 12 THEN <<date[1], date[2] + 1, 1>>
  ELSE <<date[1] + 1, 1, 1>>
C2_ContiguousDates ==
  /\ pc # "main" => num_days \in 90..365
  /\ pc = "done" =>
       /\ Len(data) = num_days
       /\ data[1].date = <<2024, 1, 1>>
       /\ \A i \in 2..Len(data) : data[i].date = DayAfter(data[i - 1].date)
C2_Witness ==
  /\ pc = "done" /\ num_days = 365 /\ Len(data) = 365
  /\ data[60].date = <<2024, 2, 29>>
  /\ data[365].date = <<2024, 12, 30>>
  /\ Len(flare_periods) = 3

\* C3: a row has in_flare = 1 iff its day index lies in [start, end) of some
\* scheduled episode and 0 otherwise; in_flare and days_to_flare are numbers
\* in every row, also in rows of missing days.
C3_FlareLabel ==
  pc = "done" =>
    \A i \in 1..Len(data) :
       /\ data[i].in_flare = (IF InSomePeriod(i - 1) THEN 1 ELSE 0)
       /\ data[i].days_to_flare \in (-1)..num_days
C3_Witness ==
  /\ pc = "done" /\ Len(flare_periods) = 2
  /\ \E i \in 1..Len(data) :
        data[i].in_flare = 1 /\ IsNaN(data[i].ch[SLEEP_HOURS])
  /\ \E i \in 1..Len(data) :
        data[i].in_flare = 0 /\ IsNaN(data[i].ch[SLEEP_HOURS])

\* C4: on a day outside every scheduled interval days_to_flare is -1 exactly
\* when no interval starts after the day, and otherwise the distance to the
\* nearest later start.
LaterStarts(d) ==
  {flare_periods[k][1] : k \in {j \in 1..Len(flare_periods) : flare_periods[j][1] > d}}
Nearest(S) == CHOOSE x \in S : \A y \in S : x <= y
C4_NearestLaterStart ==
  pc = "done" =>
    \A i \in 1..Len(data) :
       ~InSomePeriod(i - 1) =>
          data[i].days_to_flare =
             (IF LaterStarts(i - 1) = {} THEN -1 ELSE Nearest(LaterStarts(i - 1)) - (i - 1))

\* C5: for a device without has_spo2 the stored spo2 is NaN in every row; for
\* a device with has_spo2 it is NaN exactly on the days whose missingness
\* draw exceeds the coverage fraction.
C5_Spo2Absent ==
  HasRow =>
    IF device \in {"Fitbit", "Oura Ring"}
    THEN IsNaN(LastRow.ch[SPO2])
    ELSE IsNaN(LastRow.ch[SPO2]) <=> Missing
C5_Witness ==
  /\ HasRow /\ device = "Fitbit" /\ ~Missing /\ is_flare_day
  /\ IsNaN(LastRow.ch[SPO2]) /\ ~IsNaN(LastRow.ch[SLEEP_HOURS])

\* C6: every present channel value of a row lies within its clamp range.
ClampLow == <<40, 50, 5, 5, 0, 90, 3, 40>>
ClampHigh == <<0, 0, 0, 0, 0, 100, 12, 100>>
Bounded == {SPO2, SLEEP_HOURS, SLEEP_EFFICIENCY}
C6_WithinClamp ==
  HasRow =>
    \A c \in Channels :
       ~IsNaN(LastRow.ch[c]) =>
          /\ LastRow.ch[c].v >= ClampLow[c] * Scale
          /\ c \in Bounded => LastRow.ch[c].v <= ClampHigh[c] * Scale
C6_Witness ==
  /\ HasRow /\ ~Missing /\ is_flare_day
  /\ LastRow.ch[RHR] = Num(40 * Scale)
  /\ \E c \in Bounded : LastRow.ch[c] = Num(ClampHigh[c] * Scale)
  /\ \E c \in Bounded : LastRow.ch[c] = Num(ClampLow[c] * Scale)
  /\ \E c \in Channels \ Bounded : LastRow.ch[c].v > ClampLow[c] * Scale

\* C7: scenario num_days = 90, Fitbit, one 10-day episode starting at day 40.
Scenario ==
  /\ pc = "done" /\ num_days = 90 /\ device = "Fitbit"
  /\ flare_periods = << <<40, 50>> >>
\* as claimed: days_to_flare counts down from 49 at index 0
C7_CountdownFrom49 ==
  Scenario =>
    /\ \A i \in 1..90 : data[i].in_flare = (IF i - 1 \in 40..49 THEN 1 ELSE 0)
    /\ \A i \in 1..40 : data[i].days_to_flare = 49 - (i - 1)
    /\ \A i \in 1..90 : IsNaN(data[i].ch[SPO2])
\* C7 (amended): in the scenario in_flare = 1 exactly for indices 40..49,
\* days_to_flare counts down from 40 at index 0 to 1 at index 39, and spo2
\* is NaN in all 90 rows.
C7_CountdownFrom40 ==
  Scenario =>
    /\ Len(data) = 90
    /\ \A i \in 1..90 : data[i].in_flare = (IF i - 1 \in 40..49 THEN 1 ELSE 0)
    /\ \A i \in 1..40 : data[i].days_to_flare = 40 - (i - 1)
    /\ \A i \in 1..90 : IsNaN(data[i].ch[SPO2])
C7_Witness == Scenario /\ Len(data) = 90 /\ data[1].days_to_flare = 40

\* C8: the stream is consumed in a fixed order: 8 baseline draws, 1 flare
\* presence draw, with flares 1 count draw and per episode a duration and a
\* start draw, then per day 8 noise draws followed by the missingness draw,
\* on every day alike; the rows are determined by the draws at these
\* positions.
ScheduleDraws == IF has_flare THEN 1 + 2 * Len(flare_periods) ELSE 0
FirstDayDraw == DRAWS_IN_MAIN + 8 + 1 + ScheduleDraws
C8_DrawOrder ==
  /\ pc = "baseline" => ndraws = DRAWS_IN_MAIN
  /\ pc = "has_flare" =>
       /\ ndraws = DRAWS_IN_MAIN + 8
       /\ \A c \in Channels :
            patient_baseline[c] =
              Normal(BASELINE_MEAN[c], BASELINE_STD[c], Raw(seed, DRAWS_IN_MAIN + c))
  /\ pc = "episodes" => ndraws = DRAWS_IN_MAIN + 8 + 1 + 1 + 2 * Len(flare_periods)
  /\ pc \in {"days", "done"} =>
       /\ ndraws = FirstDayDraw + 9 * Len(data)
       /\ HasRow =>
            LET first == FirstDayDraw + 9 * (Len(data) - 1)
                absent == ExceedsCoverage(Raw(seed, first + 9), device)
            IN /\ IsNaN(LastRow.ch[SLEEP_HOURS]) <=> absent
               /\ ~absent =>
                    \A c \in Channels \ {SPO2} :
                       LastRow.ch[c] =
                         Stored(c, Num(WithFlare(c, patient_baseline[c], progress)
                                       + Normal(0, NOISE_STD[c], Raw(seed, first + c))))
C8_Witness ==
  /\ pc = "days" /\ has_flare /\ Len(flare_periods) = 2 /\ num_days = 91
  /\ Len(data) = 45 /\ ndraws = DRAWS_IN_MAIN + 8 + 1 + 5 + 9 * 45
  /\ is_flare_day /\ ~Missing

\* C9: scheduling never fails; an episode lasts 7..21 days, starts at day 30
\* or later and ends at num_days - 31 or earlier; the start window is not
\* empty for any duration in 7..21; at most 3 episodes; every flare day is at
\* least 30 days from both ends of the timeline.
C9_EpisodesAwayFromEdges ==
  /\ pc # "raised"
  /\ Len(flare_periods) <= 3
  /\ pc # "main" => \A dur \in 7..21 : 30 < num_days - dur - 30
  /\ \A k \in 1..Len(flare_periods) :
       /\ flare_periods[k][2] - flare_periods[k][1] \in 7..21
       /\ flare_periods[k][1] >= 30
       /\ flare_periods[k][2] <= num_days - 31
  /\ (HasRow /\ LastRow.in_flare = 1) =>
       /\ Len(data) - 1 >= 30
       /\ (num_days - 1) - (Len(data) - 1) >= 30
C9_Witness ==
  /\ pc = "done" /\ num_days = 90 /\ Len(flare_periods) = 3
  /\ flare_periods[1] = <<38, 59>>
  /\ flare_periods[3] = <<30, 37>>

\* C10: on every day inside a scheduled episode progress is 1.0, and
\* progress always lies within [0, 1].
C10_FullEffectInFlare ==
  HasRow =>
    /\ is_flare_day => progress = RAMP_DAYS
    /\ progress \in 0..RAMP_DAYS

====
